---- MODULE Spec2Model ----
(***************************************************************************)
(* Model of src/typer.ts: typing(entities), the fold that turns a parsed   *)
(* CSS value-definition-syntax sequence into an ordered, deduplicated      *)
(* sequence of type descriptors.                                           *)
(*                                                                         *)
(* Strings are sequences of one-character strings, so that slice, indexOf  *)
(* and the String(Number(text)) round trip are computed, not assumed.      *)
(* Numbers are records [nan, val]; NaN is the one value that JavaScript's  *)
(* === does not find equal to itself.                                      *)
(* Objects carry a field ref standing for their identity inside the array  *)
(* that holds them: Array.prototype.indexOf compares by identity.          *)
(***************************************************************************)
EXTENDS Integers, Sequences, FiniteSets, TLC

VARIABLES entities, i, types, hasLength, hasString, hasNumber, pc

vars == <<entities, i, types, hasLength, hasString, hasNumber, pc>>

(***************************************************************************)
(* Texts                                                                   *)
(***************************************************************************)
T_a == <<"a">>
T_b == <<"b">>
T_1 == <<"1">>
T_01 == <<"0", "1">>
T_m1 == <<"-", "1">>
T_NaN == <<"N", "a", "N">>
T_number == <<"n", "u", "m", "b", "e", "r">>
T_integer == <<"i", "n", "t", "e", "g", "e", "r">>
T_length == <<"l", "e", "n", "g", "t", "h">>
T_string == <<"s", "t", "r", "i", "n", "g">>
T_color == <<"c", "o", "l", "o", "r">>
T_hex_color == <<"h", "e", "x", "-", "c", "o", "l", "o", "r">>
T_line_style == <<"l", "i", "n", "e", "-", "s", "t", "y", "l", "e">>
T_constructor == <<"c", "o", "n", "s", "t", "r", "u", "c", "t", "o", "r">>
T_quoted == <<"'", "c", "o", "l", "o", "r", "'">>

Bracketed(name) == <<"<">> \o name \o <<">">>

(***************************************************************************)
(* JavaScript primitives used by the code                                  *)
(***************************************************************************)
NaN == [nan |-> TRUE, val |-> 0]

Num(n) == [nan |-> FALSE, val |-> n]

\* The === operator on numbers: NaN is not equal to anything, itself included.
StrictEqualsNumber(x, y) == ~x.nan /\ ~y.nan /\ x.val = y.val

DigitChars == <<"0", "1", "2", "3", "4", "5", "6", "7", "8", "9">>

IsDigit(c) == \E d \in 1..10 : DigitChars[d] = c

DigitValue(c) == (CHOOSE d \in 1..10 : DigitChars[d] = c) - 1

RECURSIVE DigitsValue(_)
DigitsValue(s) ==
  IF s = <<>> THEN 0
  ELSE 10 * DigitsValue(SubSeq(s, 1, Len(s) - 1)) + DigitValue(s[Len(s)])

AllDigits(s) == s # <<>> /\ \A k \in 1..Len(s) : IsDigit(s[k])

\* Number(text) on the fragment of StringNumericLiteral the model's texts live
\* in: the empty string, and an optionally signed run of decimal digits.
\* Every other text of the model (letters, quotes) is not a numeric literal.
ToNumber(text) ==
  IF text = <<>> THEN Num(0)
  ELSE IF AllDigits(text) THEN Num(DigitsValue(text))
  ELSE IF text[1] \in {"-", "+"} /\ AllDigits(Tail(text))
    THEN Num((IF text[1] = "-" THEN -1 ELSE 1) * DigitsValue(Tail(text)))
  ELSE NaN

RECURSIVE NatToString(_)
NatToString(n) ==
  IF n < 10 THEN <<DigitChars[n + 1]>>
  ELSE NatToString(n \div 10) \o <<DigitChars[(n % 10) + 1]>>

\* String(number) for NaN and for integers.
NumberToString(x) ==
  IF x.nan THEN T_NaN
  ELSE IF x.val < 0 THEN <<"-">> \o NatToString(-x.val)
  ELSE NatToString(x.val)

\* value.slice(1, -1)
Slice1(value) == SubSeq(value, 2, Len(value) - 1)

\* value.indexOf("'") === 0
StartsWithQuote(value) == Len(value) > 0 /\ value[1] = "'"

(***************************************************************************)
(* Type descriptors (TypeType)                                             *)
(***************************************************************************)
StringType == [type |-> "String"]

NumberType == [type |-> "Number"]

LengthType == [type |-> "Length"]

StringLiteral(literal) == [type |-> "StringLiteral", literal |-> literal]

NumericLiteral(literal) == [type |-> "NumericLiteral", literal |-> literal]

DataType(name) == [type |-> "DataType", name |-> name]

(***************************************************************************)
(* The basic-data-type catalog, built once by the reduce at module load.   *)
(* The two JSON tables are external data; the contents below exercise      *)
(* every branch of the reduce: the three special names, a name that is     *)
(* only a type (string), a name that is a type and a syntax (color), and a *)
(* special name that is a syntax as well (integer).                        *)
(***************************************************************************)
cssTypes == <<T_number, T_integer, T_length, T_string, T_color>>

syntaxes == {T_color, T_line_style, T_integer}

\* Property names every plain object inherits from Object.prototype
\* (constructor, toString, valueOf, ...); one stands for all of them.
ObjectPrototypeKeys == {T_constructor}

\* key in object, for an object with the given own keys: the in operator
\* also finds inherited properties.
In(key, ownKeys) == key \in ownKeys \/ key \in ObjectPrototypeKeys

\* What object[key] gives for an inherited property: a function object,
\* whose .type is undefined.
InheritedMember == [type |-> "undefined"]

SetKey(object, key, value) == (key :> value) @@ object

ReduceCallback(dataTypes, name) ==
  CASE name \in {T_number, T_integer} -> SetKey(dataTypes, name, NumberType)
    [] name = T_length -> SetKey(dataTypes, name, LengthType)
    [] OTHER -> IF ~In(name, syntaxes)
                  THEN SetKey(dataTypes, name, StringType)
                  ELSE dataTypes

RECURSIVE Reduce(_, _)
Reduce(names, dataTypes) ==
  IF names = <<>> THEN dataTypes
  ELSE Reduce(Tail(names), ReduceCallback(dataTypes, Head(names)))

basicDataTypes == Reduce(cssTypes \o <<T_hex_color>>, <<>>)

\* basicDataTypes[value], after value in basicDataTypes was found true
Lookup(value) ==
  IF value \in DOMAIN basicDataTypes THEN basicDataTypes[value]
  ELSE InheritedMember

(***************************************************************************)
(* The accumulator of one typing call: the closure variables types,        *)
(* hasLength, hasString, hasNumber.                                        *)
(***************************************************************************)
EmptyAcc ==
  [types |-> <<>>, hasLength |-> FALSE, hasString |-> FALSE, hasNumber |-> FALSE]

addLength(acc) ==
  IF ~acc.hasLength
    THEN [acc EXCEPT !.types = Append(@, LengthType), !.hasLength = TRUE]
    ELSE acc

\* addString without the hasString test
addString_Unguarded(acc) ==
  [acc EXCEPT !.types = Append(@, StringType), !.hasString = TRUE]

addString(acc) ==
  IF ~acc.hasString
    THEN [acc EXCEPT !.types = Append(@, StringType), !.hasString = TRUE]
    ELSE acc

addNumber(acc) ==
  IF ~acc.hasNumber
    THEN [acc EXCEPT !.types = Append(@, NumberType), !.hasNumber = TRUE]
    ELSE acc

addStringLiteral(acc, literal) ==
  IF \A k \in 1..Len(acc.types) :
       ~(acc.types[k].type = "StringLiteral" /\ acc.types[k].literal = literal)
    THEN [acc EXCEPT !.types = Append(@, StringLiteral(literal))]
    ELSE acc

addNumericLiteral(acc, literal) ==
  IF \A k \in 1..Len(acc.types) :
       ~(acc.types[k].type = "NumericLiteral"
         /\ StrictEqualsNumber(acc.types[k].literal, literal))
    THEN [acc EXCEPT !.types = Append(@, NumericLiteral(literal))]
    ELSE acc

addDataType(acc, name) ==
  IF \A k \in 1..Len(acc.types) :
       ~(acc.types[k].type = "DataType" /\ acc.types[k].name = name)
    THEN [acc EXCEPT !.types = Append(@, DataType(name))]
    ELSE acc

add(acc, type) ==
  CASE type.type = "Length" -> addLength(acc)
    [] type.type = "String" -> addString(acc)
    [] type.type = "Number" -> addNumber(acc)
    [] type.type = "StringLiteral" -> addStringLiteral(acc, type.literal)
    [] type.type = "NumericLiteral" -> addNumericLiteral(acc, type.literal)
    [] type.type = "DataType" -> addDataType(acc, type.name)
    [] OTHER -> acc

\* for (const type of ts) add(type)
RECURSIVE addAll(_, _)
addAll(acc, ts) ==
  IF ts = <<>> THEN acc ELSE addAll(add(acc, Head(ts)), Tail(ts))

(***************************************************************************)
(* Entities                                                                *)
(***************************************************************************)
NoMultiplier == [sign |-> "null"]

Sign(sign) == [sign |-> sign]

QurlyBracet(min, max) == [sign |-> "QurlyBracet", min |-> min, max |-> max]

Keyword(value, multiplier) ==
  [entity |-> "Component", component |-> "Keyword", value |-> value,
   multiplier |-> multiplier, ref |-> 0]

DataTypeComponent(value, multiplier) ==
  [entity |-> "Component", component |-> "DataType", value |-> value,
   multiplier |-> multiplier, ref |-> 0]

Group(es, multiplier) ==
  [entity |-> "Component", component |-> "Group", entities |-> es,
   multiplier |-> multiplier, ref |-> 0]

CombinatorEntity(combinator) ==
  [entity |-> "Combinator", combinator |-> combinator, ref |-> 0]

FunctionEntity(multiplier) ==
  [entity |-> "Function", multiplier |-> multiplier, ref |-> 0]

\* entities[k] for an index outside the array
Undefined == [entity |-> "undefined", ref |-> -1]

isFunction(entity) == entity.entity = "Function"

isComponent(entity) == entity.entity = "Component"

isCombinator(entity) == entity.entity = "Combinator"

isQurlyBracetMultiplier(multiplier) == multiplier.sign = "QurlyBracet"

isMandatoryCombinator(entity) ==
  entity.combinator = "DoubleAmpersand" \/ entity.combinator = "Juxtaposition"

isOptionalComponent(component) ==
  /\ component.multiplier # NoMultiplier
  /\ \/ (isQurlyBracetMultiplier(component.multiplier) /\ component.multiplier.min > 0)
     \/ component.multiplier.sign = "Asterisk"
     \/ component.multiplier.sign = "QuestionMark"

\* A search by value instead of by identity
IndexOf_ByValue(es, entity) ==
  IF \E k \in 1..Len(es) : [es[k] EXCEPT !.ref = 0] = [entity EXCEPT !.ref = 0]
    THEN CHOOSE k \in 1..Len(es) :
           /\ [es[k] EXCEPT !.ref = 0] = [entity EXCEPT !.ref = 0]
           /\ \A j \in 1..(k - 1) :
                [es[j] EXCEPT !.ref = 0] # [entity EXCEPT !.ref = 0]
    ELSE 0

\* es.indexOf(entity) + 1: the first position holding that very object, 0 when
\* there is none.
IndexOf(es, entity) ==
  IF \E k \in 1..Len(es) : es[k].ref = entity.ref
    THEN CHOOSE k \in 1..Len(es) :
           es[k].ref = entity.ref /\ \A j \in 1..(k - 1) : es[j].ref # entity.ref
    ELSE 0

At(es, k) == IF k \in 1..Len(es) THEN es[k] ELSE Undefined

previousEntity(es, currentEntity) == At(es, IndexOf(es, currentEntity) - 1)

nextEntity(es, currentEntity) == At(es, IndexOf(es, currentEntity) + 1)

previousComponentWasOptional(es, combinator) ==
  LET component == previousEntity(es, combinator)
  IN  component # Undefined /\ isComponent(component) /\ isOptionalComponent(component)

nextComponentIsOptional(es, combinator) ==
  LET component == nextEntity(es, combinator)
  IN  component # Undefined /\ isComponent(component) /\ isOptionalComponent(component)

\* The filter without its previous-side test
shouldIncludeComponent_NextOnly(es, entity) ==
  LET nextCombinator == nextEntity(es, entity)
  IN  IF nextCombinator # Undefined /\ isCombinator(nextCombinator)
         /\ isMandatoryCombinator(nextCombinator)
        THEN nextComponentIsOptional(es, nextCombinator)
      ELSE TRUE

shouldIncludeComponent(es, entity) ==
  LET nextCombinator == nextEntity(es, entity)
      previousCombinator == previousEntity(es, entity)
  IN  IF nextCombinator # Undefined /\ isCombinator(nextCombinator)
         /\ isMandatoryCombinator(nextCombinator)
        THEN nextComponentIsOptional(es, nextCombinator)
      ELSE IF previousCombinator # Undefined /\ isCombinator(previousCombinator)
              /\ isMandatoryCombinator(previousCombinator)
        THEN previousComponentWasOptional(es, previousCombinator)
      ELSE TRUE

(***************************************************************************)
(* The body of the main loop, one operator per branch                      *)
(***************************************************************************)
KeywordCase(acc, entity) ==
  IF NumberToString(ToNumber(entity.value)) = entity.value
    THEN addNumericLiteral(acc, ToNumber(entity.value))
    ELSE addStringLiteral(acc, entity.value)

DataTypeCase(acc, entity) ==
  LET value == Slice1(entity.value)
  IN  IF StartsWithQuote(value) THEN addString(acc)
      ELSE IF In(value, DOMAIN basicDataTypes) THEN add(acc, Lookup(value))
      ELSE addDataType(acc, value)

\* The multiplier test with min > 0 in place of min > 1
GroupMultiplierCase_MinPositive(acc, entity) ==
  IF entity.multiplier # NoMultiplier
    THEN IF \/ /\ isQurlyBracetMultiplier(entity.multiplier)
               /\ (entity.multiplier.min > 0 \/ entity.multiplier.max = 1)
            \/ entity.multiplier.sign = "Asterisk"
            \/ entity.multiplier.sign = "PlusSign"
            \/ entity.multiplier.sign = "HashMark"
            \/ entity.multiplier.sign = "ExclamationPoint"
           THEN addString(acc)
           ELSE acc
    ELSE acc

GroupMultiplierCase(acc, entity) ==
  IF entity.multiplier # NoMultiplier
    THEN IF \/ /\ isQurlyBracetMultiplier(entity.multiplier)
               /\ (entity.multiplier.min > 1 \/ entity.multiplier.max = 1)
            \/ entity.multiplier.sign = "Asterisk"
            \/ entity.multiplier.sign = "PlusSign"
            \/ entity.multiplier.sign = "HashMark"
            \/ entity.multiplier.sign = "ExclamationPoint"
           THEN addString(acc)
           ELSE acc
    ELSE acc

RECURSIVE typing(_)

GroupCase(acc, entity) ==
  addAll(GroupMultiplierCase(acc, entity), typing(entity.entities))

\* The combinator branch without its DoubleBar test
CombinatorCase_MandatoryOnly(acc, entity) ==
  IF isMandatoryCombinator(entity) THEN addString(acc) ELSE acc

CombinatorCase(acc, entity) ==
  IF entity.combinator = "DoubleBar" \/ isMandatoryCombinator(entity)
    THEN addString(acc)
    ELSE acc

\* The loop without its isFunction branch
FunctionCase_Skipped(acc, entity) == acc

FunctionCase(acc, entity) == addString(acc)

\* switch (entity.component)
ComponentSwitch(acc, entity) ==
  CASE entity.component = "Keyword" -> KeywordCase(acc, entity)
    [] entity.component = "DataType" -> DataTypeCase(acc, entity)
    [] entity.component = "Group" -> GroupCase(acc, entity)
    [] OTHER -> acc

\* One iteration of for (const entity of entities)
LoopBody(es, acc, entity) ==
  IF isComponent(entity)
    THEN IF shouldIncludeComponent(es, entity)
           THEN ComponentSwitch(acc, entity)
           ELSE acc
  ELSE IF isCombinator(entity) THEN CombinatorCase(acc, entity)
  ELSE IF isFunction(entity) THEN FunctionCase(acc, entity)
  ELSE acc

RECURSIVE Loop(_, _, _)
Loop(es, acc, k) ==
  IF k > Len(es) THEN acc ELSE Loop(es, LoopBody(es, acc, es[k]), k + 1)

typing(es) == Loop(es, EmptyAcc, 1).types

(***************************************************************************)
(* Inputs: well-formed entity sequences as the parser builds them. Terms   *)
(* and combinators alternate; every entity of an array is an object of its *)
(* own, so its ref is its position.                                        *)
(***************************************************************************)
MaxTerms == 3

MaxGroupTerms == 2

MaxDepth == 2

MaxRepeat == 2

Combinators ==
  {CombinatorEntity(c) :
     c \in {"Juxtaposition", "DoubleAmpersand", "DoubleBar", "SingleBar"}}

\* es with every entity given the identity of its position, from k on
RECURSIVE StampFrom(_, _)
StampFrom(es, k) ==
  IF es = <<>> THEN <<>>
  ELSE <<[Head(es) EXCEPT !.ref = k]>> \o StampFrom(Tail(es), k + 1)

Stamp(es) == StampFrom(es, 1)

\* terms ts[1..n] separated by combinators cs[1..n-1]
RECURSIVE WeaveFrom(_, _, _)
WeaveFrom(ts, cs, k) ==
  IF k > Len(ts) THEN <<>>
  ELSE IF k = Len(ts) THEN <<ts[k]>>
  ELSE <<ts[k], cs[k]>> \o WeaveFrom(ts, cs, k + 1)

Weave(ts, cs) == Stamp(WeaveFrom(ts, cs, 1))

\* The well-formed sequences of exactly n terms drawn from terms
WellFormed(terms, n) ==
  {Weave(ts, cs) : ts \in [1..n -> terms], cs \in [1..(n - 1) -> Combinators]}

\* The well-formed sequences of 1..n terms drawn from terms
WellFormedUpTo(terms, n) == UNION {WellFormed(terms, k) : k \in 1..n}

SignMultipliers ==
  {Sign(s) : s \in {"Asterisk", "PlusSign", "QuestionMark", "HashMark",
                    "ExclamationPoint"}}

QurlyBracetMultipliers ==
  {m \in {QurlyBracet(min, max) : min \in 0..MaxRepeat, max \in 1..MaxRepeat} :
     m.min <= m.max}

Multipliers == {NoMultiplier} \cup SignMultipliers \cup QurlyBracetMultipliers

KeywordTexts == {T_a, T_b, T_1, T_01, T_m1, T_NaN}

DataTypeNames ==
  {T_number, T_integer, T_length, T_string, T_color, T_hex_color,
   T_line_style, T_constructor, T_quoted}

\* Sequences of up to MaxTerms terms over six terms that between them hold
\* every kind of entity, both optional and non-optional multipliers, and
\* repeated triggers of every descriptor.
CoreGroup ==
  Group(Stamp(<<Keyword(T_a, NoMultiplier), CombinatorEntity("SingleBar"),
                Keyword(T_NaN, NoMultiplier), CombinatorEntity("SingleBar"),
                DataTypeComponent(Bracketed(T_length), NoMultiplier)>>),
        Sign("PlusSign"))

CoreTerms ==
  {Keyword(T_a, NoMultiplier),
   Keyword(T_b, Sign("QuestionMark")),
   Keyword(T_NaN, NoMultiplier),
   DataTypeComponent(Bracketed(T_line_style), QurlyBracet(1, 2)),
   FunctionEntity(Sign("QuestionMark")),
   CoreGroup}

\* Two terms around one combinator, with every multiplier on either side.
PairTerms ==
  {Keyword(T_a, NoMultiplier), Keyword(T_b, NoMultiplier)}
  \cup UNION {{Keyword(T_1, m),
               DataTypeComponent(Bracketed(T_number), m),
               FunctionEntity(m),
               Group(Stamp(<<Keyword(T_b, NoMultiplier)>>), m)} : m \in Multipliers}

\* Single components: every keyword text, every data-type name, and groups
\* with every multiplier around bodies nested up to MaxDepth deep.
BodyLeaves ==
  {Keyword(T_a, NoMultiplier), Keyword(T_NaN, Sign("QuestionMark")),
   DataTypeComponent(Bracketed(T_number), NoMultiplier)}

RECURSIVE Bodies(_)
Bodies(depth) ==
  IF depth <= 1
    THEN WellFormedUpTo(BodyLeaves, MaxGroupTerms)
    ELSE LET inner == Bodies(depth - 1)
         IN  inner \cup
             {Stamp(<<Keyword(T_a, NoMultiplier), CombinatorEntity("SingleBar"),
                      Group(b, m)>>) :
                b \in inner, m \in {NoMultiplier, Sign("Asterisk")}}

SingleLeaves ==
  {Keyword(t, NoMultiplier) : t \in KeywordTexts}
  \cup {DataTypeComponent(Bracketed(n), NoMultiplier) : n \in DataTypeNames}
  \cup {FunctionEntity(NoMultiplier)}

IsInput(es) ==
  \/ es = <<>>
  \/ \E n \in 1..MaxTerms :
       \E ts \in [1..n -> CoreTerms], cs \in [1..(n - 1) -> Combinators] :
         es = Weave(ts, cs)
  \/ \E t1 \in PairTerms, c \in Combinators, t2 \in PairTerms :
       es = Stamp(<<t1, c, t2>>)
  \/ \E t \in SingleLeaves : es = Stamp(<<t>>)
  \/ \E b \in Bodies(MaxDepth), m \in Multipliers : es = Stamp(<<Group(b, m)>>)

(***************************************************************************)
(* The call typing(entities) as a state machine: the entry, one step per   *)
(* iteration of the main loop, then the return.                            *)
(***************************************************************************)
Acc ==
  [types |-> types, hasLength |-> hasLength, hasString |-> hasString,
   hasNumber |-> hasNumber]

SetAcc(acc) ==
  /\ types' = acc.types
  /\ hasLength' = acc.hasLength
  /\ hasString' = acc.hasString
  /\ hasNumber' = acc.hasNumber

\* Before the call: no argument yet.
Init ==
  /\ entities = <<>>
  /\ i = 1
  /\ types = <<>>
  /\ hasLength = FALSE
  /\ hasString = FALSE
  /\ hasNumber = FALSE
  /\ pc = "idle"

\* typing(entities) is entered: the closure variables are initialised and
\* the loop stands before the first entity.
Call ==
  /\ pc = "idle"
  /\ IsInput(entities')
  /\ SetAcc(EmptyAcc)
  /\ i' = 1
  /\ pc' = "loop"

InLoop == pc = "loop" /\ i <= Len(entities)

Advance == i' = i + 1 /\ UNCHANGED <<entities, pc>>

KeywordStep ==
  /\ InLoop
  /\ isComponent(entities[i])
  /\ shouldIncludeComponent(entities, entities[i])
  /\ entities[i].component = "Keyword"
  /\ SetAcc(KeywordCase(Acc, entities[i]))
  /\ Advance

DataTypeStep ==
  /\ InLoop
  /\ isComponent(entities[i])
  /\ shouldIncludeComponent(entities, entities[i])
  /\ entities[i].component = "DataType"
  /\ SetAcc(DataTypeCase(Acc, entities[i]))
  /\ Advance

GroupStep ==
  /\ InLoop
  /\ isComponent(entities[i])
  /\ shouldIncludeComponent(entities, entities[i])
  /\ entities[i].component = "Group"
  /\ SetAcc(GroupCase(Acc, entities[i]))
  /\ Advance

ExcludedStep ==
  /\ InLoop
  /\ isComponent(entities[i])
  /\ ~shouldIncludeComponent(entities, entities[i])
  /\ SetAcc(Acc)
  /\ Advance

CombinatorStep ==
  /\ InLoop
  /\ isCombinator(entities[i])
  /\ SetAcc(CombinatorCase(Acc, entities[i]))
  /\ Advance

FunctionStep ==
  /\ InLoop
  /\ isFunction(entities[i])
  /\ SetAcc(FunctionCase(Acc, entities[i]))
  /\ Advance

Return ==
  /\ pc = "loop"
  /\ i > Len(entities)
  /\ pc' = "done"
  /\ UNCHANGED <<entities, i, types, hasLength, hasString, hasNumber>>

Next ==
  \/ Call
  \/ KeywordStep
  \/ DataTypeStep
  \/ GroupStep
  \/ ExcludedStep
  \/ CombinatorStep
  \/ FunctionStep
  \/ Return

Spec == Init /\ [][Next]_vars

(***************************************************************************)
(* Vocabulary of the properties                                            *)
(***************************************************************************)
Positions(ts, type) == {k \in 1..Len(ts) : ts[k].type = type}

Has(ts, type) == Positions(ts, type) # {}

\* Same variant and same discriminating field
SameDescriptor(x, y) ==
  /\ x.type = y.type
  /\ x.type \in {"StringLiteral", "NumericLiteral"} => x.literal = y.literal
  /\ x.type = "DataType" => x.name = y.name

IsTypeType(d) ==
  \/ d \in {StringType, NumberType, LengthType}
  \/ d.type = "StringLiteral" /\ DOMAIN d = {"type", "literal"}
  \/ d.type = "NumericLiteral" /\ DOMAIN d = {"type", "literal"}
  \/ d.type = "DataType" /\ DOMAIN d = {"type", "name"}

IsGroupAt(es, k) == isComponent(es[k]) /\ es[k].component = "Group"

AddsString(combinator) ==
  combinator \in {"DoubleBar", "Juxtaposition", "DoubleAmpersand"}

(***************************************************************************)
(* C1: at every point of the loop, and so in the output, the accumulated   *)
(* sequence holds at most one String, at most one Number and at most one   *)
(* Length descriptor, however many entities triggered each.                *)
(***************************************************************************)
C1_Singleton ==
  \A type \in {"String", "Number", "Length"} :
    Cardinality(Positions(types, type)) <= 1

\* Two DoubleBar combinators and two groups that each bring a multiplier
\* String and a nested Length have all been processed.
C1_Witness ==
  /\ pc = "done"
  /\ Len(entities) = 5
  /\ \A k \in {2, 4} : entities[k].combinator = "DoubleBar"
  /\ Cardinality({k \in {1, 3, 5} : entities[k] = [CoreGroup EXCEPT !.ref = k]}) >= 2
  /\ Cardinality(Positions(types, "String")) = 1
  /\ Cardinality(Positions(types, "Length")) = 1

(***************************************************************************)
(* C2: the output holds no two StringLiteral descriptors with the same     *)
(* literal, no two NumericLiteral descriptors with the same literal and no *)
(* two DataType descriptors with the same name.                            *)
(***************************************************************************)
C2_LiteralUniqueness ==
  \A j, k \in 1..Len(types) :
    (j < k /\ types[j].type \in {"StringLiteral", "NumericLiteral", "DataType"})
      => ~SameDescriptor(types[j], types[k])

(***************************************************************************)
(* C3: every iteration appends, after what is already there and in their   *)
(* own order, exactly those descriptors its entity triggers that are not   *)
(* yet present; nothing moves, nothing is removed, a duplicate trigger     *)
(* changes nothing, and a group's descriptors land where the group is      *)
(* processed.                                                              *)
(***************************************************************************)
Triggered(es, k) == LoopBody(es, EmptyAcc, es[k]).types

RECURSIVE AppendNew(_, _)
AppendNew(ts, new) ==
  IF new = <<>> THEN ts
  ELSE AppendNew(IF \E j \in 1..Len(ts) : SameDescriptor(ts[j], Head(new))
                   THEN ts
                   ELSE Append(ts, Head(new)),
                 Tail(new))

C3_OrderPreservation ==
  [][InLoop => types' = AppendNew(types, Triggered(entities, i))]_vars

(***************************************************************************)
(* C4: every call returns, and never fails. Before the return some step is *)
(* always enabled; every step of the loop moves to the next entity of the  *)
(* finite sequence, so the return is reached after Len(entities) steps;    *)
(* and what is returned is a sequence of descriptors in which a Function,  *)
(* an included quoted data type and a DoubleBar, Juxtaposition or          *)
(* DoubleAmpersand combinator have left String.                            *)
(***************************************************************************)
DegradesToString(es, k) ==
  \/ isFunction(es[k])
  \/ isCombinator(es[k]) /\ AddsString(es[k].combinator)
  \/ /\ isComponent(es[k])
     /\ es[k].component = "DataType"
     /\ es[k].value[2] = "'"
     /\ shouldIncludeComponent(es, es[k])

ResultOK ==
  /\ i = Len(entities) + 1
  /\ \A k \in 1..Len(types) : IsTypeType(types[k])
  /\ (\E k \in 1..Len(entities) : DegradesToString(entities, k))
       => Has(types, "String")

\* The disjunction of the guards of the steps: what ENABLED Next comes to in
\* a state inside the call.
SomeStepEnabled ==
  \/ pc = "idle"
  \/ pc = "loop" /\ i > Len(entities)
  \/ /\ InLoop
     /\ \/ isCombinator(entities[i])
        \/ isFunction(entities[i])
        \/ isComponent(entities[i]) /\ ~shouldIncludeComponent(entities, entities[i])
        \/ /\ isComponent(entities[i])
           /\ shouldIncludeComponent(entities, entities[i])
           /\ entities[i].component \in {"Keyword", "DataType", "Group"}

C4_Total ==
  /\ [](pc = "done" \/ SomeStepEnabled)
  /\ [][pc = "loop" => \/ i <= Len(entities) /\ i' = i + 1 /\ pc' = "loop"
                       \/ i > Len(entities) /\ pc' = "done"]_vars
  /\ [](pc = "done" => ResultOK)

\* A call over a sequence that holds a Function and a Juxtaposition has
\* returned, and its result is the generic String alone.
C4_Witness ==
  /\ pc = "done"
  /\ \E k \in 1..Len(entities) : isFunction(entities[k])
  /\ \E k \in 1..Len(entities) :
       isCombinator(entities[k]) /\ entities[k].combinator = "Juxtaposition"
  /\ types = <<StringType>>

(***************************************************************************)
(* C5: running typing twice, concatenating the two results and            *)
(* deduplicating with the add operation gives the result of one run.       *)
(***************************************************************************)
C5_IdempotentDedup ==
  pc = "done" => addAll(EmptyAcc, types \o types).types = types

(***************************************************************************)
(* C6: a component at position k is included exactly when: the entity at   *)
(* k+1 is a Juxtaposition or DoubleAmpersand combinator and the entity at  *)
(* k+2 is a component with an optional multiplier; or else the entity at   *)
(* k-1 is such a combinator and the entity at k-2 is a component with an   *)
(* optional multiplier; or else neither neighbour is such a combinator.    *)
(* Optional means QurlyBracet with min > 0, Asterisk or QuestionMark. An   *)
(* included component is handled by its rule, an excluded one changes      *)
(* nothing.                                                                *)
(***************************************************************************)
OptionalMultiplier(m) ==
  \/ m.sign = "QurlyBracet" /\ m.min > 0
  \/ m.sign = "Asterisk"
  \/ m.sign = "QuestionMark"

MandatoryAt(es, k) ==
  /\ k \in 1..Len(es)
  /\ es[k].entity = "Combinator"
  /\ es[k].combinator \in {"Juxtaposition", "DoubleAmpersand"}

OptionalComponentAt(es, k) ==
  /\ k \in 1..Len(es)
  /\ es[k].entity = "Component"
  /\ OptionalMultiplier(es[k].multiplier)

PositionRule(es, k) ==
  IF MandatoryAt(es, k + 1) THEN OptionalComponentAt(es, k + 2)
  ELSE IF MandatoryAt(es, k - 1) THEN OptionalComponentAt(es, k - 2)
  ELSE TRUE

C6_InclusionFilter ==
  /\ [](\A k \in 1..Len(entities) :
          isComponent(entities[k]) =>
            (shouldIncludeComponent(entities, entities[k])
               <=> PositionRule(entities, k)))
  /\ [][(InLoop /\ isComponent(entities[i])) =>
          Acc' = IF PositionRule(entities, i)
                   THEN ComponentSwitch(Acc, entities[i])
                   ELSE Acc]_vars

\* The loop has just passed a data type with an optional multiplier of its
\* own, standing after a mandatory combinator and an optional component and
\* before a mandatory combinator and a Function with a question mark: the
\* next side decided, and nothing was added for it.
C6_Witness ==
  /\ pc = "loop"
  /\ Len(entities) = 5
  /\ i = 4
  /\ OptionalComponentAt(entities, 1)
  /\ MandatoryAt(entities, 2)
  /\ OptionalComponentAt(entities, 3)
  /\ entities[3].component = "DataType"
  /\ MandatoryAt(entities, 4)
  /\ isFunction(entities[5])
  /\ entities[5].multiplier.sign = "QuestionMark"
  /\ ~Has(types, "DataType")

(***************************************************************************)
(* C7: a combinator appends String (once) exactly when it is DoubleBar,    *)
(* Juxtaposition or DoubleAmpersand, and SingleBar changes nothing; two    *)
(* distinct non-numeric keywords around a DoubleBar give                   *)
(* [StringLiteral a, String, StringLiteral b].                             *)
(***************************************************************************)
IsNumericText(text) == NumberToString(ToNumber(text)) = text

IsKeywordAt(es, k) == isComponent(es[k]) /\ es[k].component = "Keyword"

C7_CombinatorRule ==
  /\ [][(InLoop /\ isCombinator(entities[i])) =>
          types' = IF AddsString(entities[i].combinator) /\ ~Has(types, "String")
                     THEN Append(types, StringType)
                     ELSE types]_vars
  /\ []((/\ pc = "done"
         /\ Len(entities) = 3
         /\ IsKeywordAt(entities, 1)
         /\ IsKeywordAt(entities, 3)
         /\ entities[2].combinator = "DoubleBar"
         /\ entities[1].value # entities[3].value
         /\ ~IsNumericText(entities[1].value)
         /\ ~IsNumericText(entities[3].value))
        => types = <<StringLiteral(entities[1].value), StringType,
                     StringLiteral(entities[3].value)>>)

\* typing([Keyword a, DoubleBar, Keyword b]) has returned.
C7_Witness ==
  /\ pc = "done"
  /\ entities = Stamp(<<Keyword(T_a, NoMultiplier), CombinatorEntity("DoubleBar"),
                        Keyword(T_b, NoMultiplier)>>)
  /\ types = <<StringLiteral(T_a), StringType, StringLiteral(T_b)>>

(***************************************************************************)
(* C8: an included group first adds String exactly when its multiplier is  *)
(* QurlyBracet with min > 1 or max = 1, or Asterisk, PlusSign, HashMark or *)
(* ExclamationPoint, and then merges every descriptor of the typing of its *)
(* nested sequence with the add operation; a group with Asterisk around    *)
(* [Keyword a] gives [String, StringLiteral a].                            *)
(***************************************************************************)
GroupAddsString(m) ==
  \/ m.sign = "QurlyBracet" /\ (m.min > 1 \/ m.max = 1)
  \/ m.sign \in {"Asterisk", "PlusSign", "HashMark", "ExclamationPoint"}

C8_GroupRule ==
  /\ [][(/\ InLoop
         /\ IsGroupAt(entities, i)
         /\ shouldIncludeComponent(entities, entities[i])) =>
          Acc' = addAll(IF GroupAddsString(entities[i].multiplier)
                          THEN addString(Acc)
                          ELSE Acc,
                        typing(entities[i].entities))]_vars
  /\ []((/\ pc = "done"
         /\ Len(entities) = 1
         /\ IsGroupAt(entities, 1)
         /\ entities[1].multiplier = Sign("Asterisk")
         /\ entities[1].entities = Stamp(<<Keyword(T_a, NoMultiplier)>>))
        => types = <<StringType, StringLiteral(T_a)>>)

\* typing of the group [a]* alone has returned.
C8_Witness ==
  /\ pc = "done"
  /\ entities = Stamp(<<Group(Stamp(<<Keyword(T_a, NoMultiplier)>>),
                              Sign("Asterisk"))>>)
  /\ types = <<StringType, StringLiteral(T_a)>>

(***************************************************************************)
(* C9: an included data type adds exactly the descriptor chosen from the   *)
(* text between its angle brackets: String when the text begins with a     *)
(* quote; else, for a name of the catalog, Number for number and integer,  *)
(* Length for length, String for any other; else DataType with that name.  *)
(* The catalog holds the names of the type table and hex-color, less those *)
(* that are syntax rules and not number, integer or length. No Alias       *)
(* descriptor is ever produced.                                            *)
(***************************************************************************)
InCatalog(name) ==
  /\ \/ \E k \in 1..Len(cssTypes) : cssTypes[k] = name
     \/ name = T_hex_color
  /\ name \in {T_number, T_integer, T_length} \/ name \notin syntaxes

DescriptorOf(value) ==
  LET name == SubSeq(value, 2, Len(value) - 1)
  IN  IF name[1] = "'" THEN StringType
      ELSE IF InCatalog(name)
        THEN IF name \in {T_number, T_integer} THEN NumberType
             ELSE IF name = T_length THEN LengthType
             ELSE StringType
      ELSE DataType(name)

C9_DataTypeRule ==
  /\ [][(/\ InLoop
         /\ isComponent(entities[i])
         /\ entities[i].component = "DataType"
         /\ shouldIncludeComponent(entities, entities[i])) =>
          Acc' = add(Acc, DescriptorOf(entities[i].value))]_vars
  /\ [](~Has(types, "Alias"))

(***************************************************************************)
(* C10: in a sequence of two or more terms whose combinators are all       *)
(* Juxtaposition or DoubleAmpersand and whose components carry no optional *)
(* multiplier, every component is excluded, groups included, and the       *)
(* result is exactly [String].                                             *)
(***************************************************************************)
AllMandatoryNoOptional(es) ==
  /\ Len(es) >= 3
  /\ \A k \in 1..Len(es) :
       /\ isCombinator(es[k]) => MandatoryAt(es, k)
       /\ isComponent(es[k]) => ~OptionalMultiplier(es[k].multiplier)

C10_AllExcluded ==
  (pc # "idle" /\ AllMandatoryNoOptional(entities)) =>
    /\ \A k \in 1..Len(entities) :
         isComponent(entities[k]) => ~shouldIncludeComponent(entities, entities[k])
    /\ pc = "done" => types = <<StringType>>

\* A call over three terms, a group with its nested sequence among them, all
\* joined by mandatory combinators, has returned.
C10_Witness ==
  /\ pc = "done"
  /\ AllMandatoryNoOptional(entities)
  /\ Len(entities) = 5
  /\ \E k \in 1..Len(entities) : IsGroupAt(entities, k)
  /\ \E k \in 1..Len(entities) : IsKeywordAt(entities, k)
  /\ types = <<StringType>>

====
